---- MODULE Spec2Model ----
(***************************************************************************)
(* Model of the field-class generator of DynamicForms:                     *)
(*   dynamicforms_dev/management/commands/generate_fields.py               *)
(* Command.handle discovers the DRF field classes, merges for each of them *)
(* the constructor parameters of its resolution chain (up to Field) and of *)
(* UUIDMixIn, and prints one class with the merged constructor to          *)
(* dynamicforms/fields.py.  The loops of handle are modelled step by step: *)
(* one step per target, per visited class and per inspected parameter.     *)
(* The emitted constructor body (lines 121-123) is modelled by Call.       *)
(* The layout of the text (textwrap, the noinspection comment) is not      *)
(* modelled: a parameter string is kept as its three parts.                *)
(***************************************************************************)
EXTENDS Naturals, Sequences, FiniteSets, TLC

VARIABLES
    classes,            \* the host chain: classes[1] is fields.Field, classes[i+1] derives from classes[i]
    mixin,              \* the class bound to UUIDMixIn
    fields_dict,        \* values of rest_framework.fields.__dict__ (class indices)
    relations_dict,     \* values of rest_framework.relations.__dict__ (class indices)
    pc,                 \* position of handle
    output,             \* lines/blocks printed to dynamicforms/fields.py
    stdout,             \* lines printed to the console
    field_list, fi,     \* the targets and the index of the one being generated
    field_params, field_params_names,
    param_classes, ci,  \* (depth, class) pairs of the current target and the index of the one visited
    skip_depth, had_kwds,
    pi,                 \* index of the parameter inspected in the visited class's signature
    call                \* the last call made of a generated constructor

vars == <<classes, mixin, fields_dict, relations_dict, pc, output, stdout, field_list, fi,
          field_params, field_params_names, param_classes, ci, skip_depth, had_kwds, pi, call>>

inputs == <<classes, mixin, fields_dict, relations_dict>>

-----------------------------------------------------------------------------
(* Bounds of the model *)

\* longest host chain, Field included
MaxChain == 3
\* most keyword arguments in one call of a generated constructor
MaxCallKeys == 1

-----------------------------------------------------------------------------
(* Strings *)

StartsWith(s, p) == Len(s) >= Len(p) /\ SubSeq(s, 1, Len(p)) = p

EndsWith(s, p) == Len(s) >= Len(p) /\ SubSeq(s, Len(s) - Len(p) + 1, Len(s)) = p

\* s.split('.')[-1]
RECURSIVE LastDotted(_)
LastDotted(s) ==
    IF \E i \in 1..Len(s) : SubSeq(s, i, i) = "."
    THEN LastDotted(SubSeq(s, (CHOOSE i \in 1..Len(s) : SubSeq(s, i, i) = ".") + 1, Len(s)))
    ELSE s

-----------------------------------------------------------------------------
(* Python values met as annotations and defaults.  A value is given by the *)
(* type it is an instance of and its repr; a class also by module and name *)

Instance(t, r) == [type |-> t, repr |-> r, module |-> "builtins", name |-> ""]
Class(m, n) == [type |-> "type", repr |-> "<class '" \o m \o "." \o n \o "'>", module |-> m, name |-> n]

inspect_empty == Class("inspect", "_empty")
None == Instance("NoneType", "None")
False == Instance("bool", "False")
Zero == Instance("int", "0")
uuid_UUID == Class("uuid", "UUID")
fields_empty == Class("rest_framework.fields", "empty")
int_class == [type |-> "type", repr |-> "<class 'int'>", module |-> "builtins", name |-> "int"]
an_object == Instance("object", "<object object>")

\* isinstance(v, (str, int, float, bool,)) or v is None
IsLiteral(v) == v.type \in {"str", "int", "float", "bool"} \/ v = None

-----------------------------------------------------------------------------
(* inspect.Parameter *)

POSITIONAL_ONLY == "POSITIONAL_ONLY"
POSITIONAL_OR_KEYWORD == "POSITIONAL_OR_KEYWORD"
VAR_POSITIONAL == "VAR_POSITIONAL"
KEYWORD_ONLY == "KEYWORD_ONLY"
VAR_KEYWORD == "VAR_KEYWORD"

Parm(n, k, a, d) == [name |-> n, kind |-> k, annotation |-> a, default |-> d]

Self == Parm("self", POSITIONAL_OR_KEYWORD, inspect_empty, inspect_empty)
Opt(n, d) == Parm(n, POSITIONAL_OR_KEYWORD, inspect_empty, d)
Req(n) == Parm(n, POSITIONAL_OR_KEYWORD, inspect_empty, inspect_empty)
VarArgs(n) == Parm(n, VAR_POSITIONAL, inspect_empty, inspect_empty)
VarKw(n) == Parm(n, VAR_KEYWORD, inspect_empty, inspect_empty)

\* inspect.signature(object.__init__)
ObjectInit == << Parm("self", POSITIONAL_ONLY, inspect_empty, inspect_empty),
                 VarArgs("args"), VarKw("kwargs") >>

-----------------------------------------------------------------------------
(* The host hierarchy the run inspects.  A class is given by its name,     *)
(* whether it defines __init__ itself, and that __init__'s parameters.     *)

HostClass(o, ps) == [own |-> o, init |-> ps]

\* a class that defines no __init__
NoInit == HostClass(FALSE, <<>>)

\* constructors of the stop-class fields.Field
FieldInits ==
    { HostClass(TRUE, <<Self, Opt("allow_null", False)>>),
      HostClass(TRUE, <<Self, Opt("choices", None)>>),
      HostClass(TRUE, <<Self, Parm("label", POSITIONAL_OR_KEYWORD, int_class, None)>>),
      HostClass(TRUE, <<Self, Parm("source", POSITIONAL_ONLY, inspect_empty, None)>>) }

\* constructors of the classes between a target and Field
MidInits ==
    { NoInit,
      HostClass(TRUE, <<Self, VarKw("kwargs")>>),
      HostClass(TRUE, <<Self, Opt("max_length", None)>>),
      HostClass(TRUE, <<Self, Req("choices"), VarKw("kwargs")>>) }

\* constructors of the most derived class
LeafInits ==
    MidInits \cup
    { HostClass(TRUE, <<Self, Opt("max_length", None), Opt("child", an_object), VarKw("kwargs")>>),
      HostClass(TRUE, <<Self, Opt("kw", None), VarKw("kwargs")>>),
      HostClass(TRUE, <<Self, Opt("kwd", None), VarKw("kwargs")>>),
      HostClass(TRUE, <<Self, Opt("allow_null", False), VarKw("kwargs")>>),
      HostClass(TRUE, <<Self, Opt("default", fields_empty), VarArgs("args"), VarKw("kwargs")>>),
      HostClass(TRUE, <<Self, Parm("label", POSITIONAL_OR_KEYWORD, Instance("str", "'str'"), Zero)>>) }

\* constructors of the injected mixin
MixinInits ==
    { HostClass(TRUE, <<Self, VarArgs("args"), Parm("uuid", KEYWORD_ONLY, uuid_UUID, None), VarKw("kwds")>>),
      HostClass(TRUE, <<Self, Opt("id", None)>>),
      HostClass(TRUE, <<Self, Opt("max_length", Zero)>>) }

\* class names by position in the chain
FieldNames == <<"Field", "CharField", "ChoiceField", "MultipleChoiceField", "FilePathField">>
RelationNames == <<"Field", "RelatedField", "SlugRelatedField", "HyperlinkedRelatedField", "ManyRelated">>

Range(f) == { f[i] : i \in DOMAIN f }

Iota(a, b) == [i \in 1..(b + 1 - a) |-> a + i - 1]

\* how the chain is named and bound in the two modules
Layouts == {"fields", "boolean_base", "alias", "private", "relations"}

ClassName(layout, n, i) ==
    IF layout = "relations" THEN RelationNames[i]
    ELSE IF layout = "private" /\ i = 2 THEN "_UnvalidatedField"
    ELSE IF layout = "boolean_base" /\ i = 2 THEN "BooleanField"
    ELSE IF layout = "boolean_base" /\ i = 3 THEN "NullBooleanField"
    ELSE IF layout # "boolean_base" /\ i = n THEN "BooleanField"
    ELSE FieldNames[i]

FieldsDict(layout, n) ==
    CASE layout = "relations" -> <<1>>
      [] layout = "alias" -> Iota(1, n) \o <<n>>
      [] OTHER -> Iota(1, n)

RelationsDict(layout, n) ==
    IF layout = "relations" THEN Iota(1, n) ELSE <<1>>

Hierarchies(n) ==
    { h \in [1..n -> FieldInits \cup LeafInits] :
         /\ h[1] \in FieldInits
         /\ h[n] \in LeafInits
         /\ \A i \in 2..(n - 1) : h[i] \in MidInits }

\* the class bound to the name UUIDMixIn in param_classes
UUIDMixIn == 0

Init ==
    /\ \E n \in 2..MaxChain, layout \in Layouts : \E h \in Hierarchies(n) :
          /\ classes = [i \in 1..n |-> [name |-> ClassName(layout, n, i), own |-> h[i].own, init |-> h[i].init]]
          /\ fields_dict = FieldsDict(layout, n)
          /\ relations_dict = RelationsDict(layout, n)
    /\ \E m \in MixinInits : mixin = [name |-> "UUIDMixIn", own |-> m.own, init |-> m.init]
    /\ pc = "start"
    /\ output = <<>>
    /\ stdout = <<>>
    /\ field_list = <<>>
    /\ fi = 1
    /\ field_params = <<>>
    /\ field_params_names = {}
    /\ param_classes = <<>>
    /\ ci = 1
    /\ skip_depth = 0
    /\ had_kwds = FALSE
    /\ pi = 1
    /\ call = [made |-> FALSE]

-----------------------------------------------------------------------------
(* Reflection *)

\* inspect.signature(cls.__init__) of a chain class: its own __init__, or
\* the one it inherits along the resolution order, at last object's
RECURSIVE InheritedInit(_)
InheritedInit(i) ==
    IF i = 0 THEN ObjectInit
    ELSE IF classes[i].own THEN classes[i].init
    ELSE InheritedInit(i - 1)

Signature(cls) ==
    IF cls = UUIDMixIn
    THEN (IF mixin.own THEN mixin.init ELSE ObjectInit)
    ELSE InheritedInit(cls)

NameOf(cls) == IF cls = UUIDMixIn THEN mixin.name ELSE classes[cls].name

\* issubclass(obj, rest_framework.relations.RelatedField)
IsRelatedField(obj) == \E j \in 1..obj : classes[j].name = "RelatedField"

InFields(obj) == obj # 1 /\ ~StartsWith(classes[obj].name, "_")

InRelations(obj) ==
    /\ classes[obj].name # "RelatedField"
    /\ IsRelatedField(obj)
    /\ EndsWith(classes[obj].name, "Field")

Discover == SelectSeq(fields_dict, InFields) \o SelectSeq(relations_dict, InRelations)

Header == << [kind |-> "line", text |-> "from uuid import UUID\n"],
             [kind |-> "line", text |-> "from rest_framework import fields, relations"],
             [kind |-> "line", text |-> "from .mixins import ActionMixin, RenderToTableMixin, UUIDMixIn"] >>

\* a variant that visits the mixin before the chain
ParamClassesMixinFirst(field) ==
    <<[depth |-> 0, cls |-> UUIDMixIn]>> \o [k \in 1..field |-> [depth |-> k - 1, cls |-> field - k + 1]]

\* the resolution order of field up to Field, with depths, then the mixin
ParamClasses(field) ==
    [k \in 1..field |-> [depth |-> k - 1, cls |-> field - k + 1]] \o <<[depth |-> 0, cls |-> UUIDMixIn]>>

-----------------------------------------------------------------------------
(* The merge of one parameter *)

field_class == classes[field_list[fi]].name

\* a variant that drops allow_null whatever the target
ExcludedEverywhere(fc, p) == p.name = "allow_null"

Excluded(fc, parm) == fc = "BooleanField" /\ parm.name = "allow_null"

SelfOrVar(parm) == parm.name = "self" \/ parm.kind \in {VAR_KEYWORD, VAR_POSITIONAL}

LatePositional(depth, params, parm) ==
    /\ depth # 0
    /\ Len(params) # 0
    /\ \/ parm.kind = POSITIONAL_ONLY
       \/ parm.kind = POSITIONAL_OR_KEYWORD /\ parm.default = inspect_empty

\* a variant that is off by one: it lets in the class one deeper than skip_depth
SkipsClassLate(d, skip) == d > skip + 1

SkipsClass(depth, skip) == depth > skip

AnnotationKnown(p_an) == IsLiteral(p_an) \/ p_an \in {uuid_UUID}

AnnotationText(p_an) ==
    IF p_an = inspect_empty THEN ""
    ELSE IF IsLiteral(p_an) THEN ": " \o p_an.repr
    ELSE IF p_an \in {uuid_UUID} THEN ": " \o p_an.name
    ELSE ""

DefaultKnown(p_def) == IsLiteral(p_def) \/ p_def \in {fields_empty}

DefaultText(p_def) ==
    IF p_def = inspect_empty THEN ""
    ELSE IF IsLiteral(p_def) THEN "=" \o p_def.repr
    ELSE IF p_def \in {fields_empty} THEN "=" \o LastDotted(p_def.module) \o "." \o p_def.name
    ELSE ""

ParmStr(parm) ==
    [name |-> parm.name, ann |-> AnnotationText(parm.annotation), default |-> DefaultText(parm.default)]

Errors(parm) ==
    (IF parm.annotation # inspect_empty /\ ~AnnotationKnown(parm.annotation)
     THEN <<[text |-> "Error: parameter", parm |-> parm.name, what |-> "annotation is of unknown type",
             type |-> parm.annotation.repr]>>
     ELSE <<>>)
    \o
    (IF parm.default # inspect_empty /\ ~DefaultKnown(parm.default)
     THEN <<[text |-> "Error: parameter", parm |-> parm.name, what |-> "default is of unknown type",
             type |-> parm.default.repr]>>
     ELSE <<>>)

-----------------------------------------------------------------------------
(* Command.handle *)

\* lines 21-36: open fields.py for writing, collect the targets, print the imports
Begin ==
    /\ pc = "start"
    /\ field_list' = Discover
    /\ output' = Header
    /\ fi' = 1
    /\ pc' = "field"
    /\ UNCHANGED <<inputs, stdout, field_params, field_params_names, param_classes, ci,
                   skip_depth, had_kwds, pi, call>>

\* lines 38-48: the next target
StartField ==
    /\ pc = "field"
    /\ fi <= Len(field_list)
    /\ field_params' = <<>>
    /\ field_params_names' = {}
    /\ param_classes' = ParamClasses(field_list[fi])
    /\ skip_depth' = 0
    /\ ci' = 1
    /\ pc' = "class"
    /\ UNCHANGED <<inputs, output, stdout, field_list, fi, had_kwds, pi, call>>

\* lines 49-51: a class deeper than skip_depth is passed over
SkipClass ==
    /\ pc = "class"
    /\ ci <= Len(param_classes)
    /\ SkipsClass(param_classes[ci].depth, skip_depth)
    /\ ci' = ci + 1
    /\ UNCHANGED <<inputs, pc, output, stdout, field_list, fi, field_params, field_params_names,
                   param_classes, skip_depth, had_kwds, pi, call>>

\* lines 52-56: the class is visited (every class has an __init__ attribute)
EnterClass ==
    /\ pc = "class"
    /\ ci <= Len(param_classes)
    /\ ~SkipsClass(param_classes[ci].depth, skip_depth)
    /\ skip_depth' = 0
    /\ had_kwds' = FALSE
    /\ pi' = 1
    /\ pc' = "parm"
    /\ UNCHANGED <<inputs, output, stdout, field_list, fi, field_params, field_params_names,
                   param_classes, ci, call>>

depth == param_classes[ci].depth
cls == param_classes[ci].cls
parm == Signature(cls)[pi]

InParms == pc = "parm" /\ pi <= Len(Signature(cls))

\* lines 58-60
ExcludeParm ==
    /\ InParms
    /\ Excluded(field_class, parm)
    /\ pi' = pi + 1
    /\ UNCHANGED <<inputs, pc, output, stdout, field_list, fi, field_params, field_params_names,
                   param_classes, ci, skip_depth, had_kwds, call>>

\* lines 62-66
SkipSelfOrVar ==
    /\ InParms
    /\ ~Excluded(field_class, parm)
    /\ SelfOrVar(parm)
    /\ had_kwds' = (had_kwds \/ parm.kind = VAR_KEYWORD)
    /\ pi' = pi + 1
    /\ UNCHANGED <<inputs, pc, output, stdout, field_list, fi, field_params, field_params_names,
                   param_classes, ci, skip_depth, call>>

\* lines 67-72
SkipPositional ==
    /\ InParms
    /\ ~Excluded(field_class, parm)
    /\ ~SelfOrVar(parm)
    /\ LatePositional(depth, field_params, parm)
    /\ pi' = pi + 1
    /\ UNCHANGED <<inputs, pc, output, stdout, field_list, fi, field_params, field_params_names,
                   param_classes, ci, skip_depth, had_kwds, call>>

\* a variant where the last class that brings a name replaces the earlier entry
AppendLast(params, names, p) ==
    IF p.name \notin names THEN Append(params, ParmStr(p))
    ELSE [i \in DOMAIN params |-> IF params[i].name = p.name THEN ParmStr(p) ELSE params[i]]

\* lines 96-98: a name is taken once, by the first class that brings it
AppendFirst(params, names, p) ==
    IF p.name \notin names THEN Append(params, ParmStr(p)) ELSE params

\* a variant where an unknown type raises and ends the run
AfterParmRaising(p) == IF Errors(p) # <<>> THEN "raised" ELSE "parm"

\* lines 82-86, 93-94: an unknown type is printed, nothing is raised
AfterParm(p) == "parm"

\* lines 74-98
MergeParm ==
    /\ InParms
    /\ ~Excluded(field_class, parm)
    /\ ~SelfOrVar(parm)
    /\ ~LatePositional(depth, field_params, parm)
    /\ stdout' = stdout \o Errors(parm)
    /\ field_params' = AppendFirst(field_params, field_params_names, parm)
    /\ field_params_names' = field_params_names \cup {parm.name}
    /\ pi' = pi + 1
    /\ pc' = AfterParm(parm)
    /\ UNCHANGED <<inputs, output, field_list, fi, param_classes, ci, skip_depth, had_kwds, call>>

\* a variant that goes on to the next class whatever the class declares
NextSkipDepthAlways(d, kwds) == d + 1

NextSkipDepth(d, kwds) == IF kwds THEN d + 1 ELSE 0

\* lines 100-101, at the end of the class's parameters
EndClass ==
    /\ pc = "parm"
    /\ pi > Len(Signature(cls))
    /\ skip_depth' = NextSkipDepth(depth, had_kwds)
    /\ ci' = ci + 1
    /\ pc' = "class"
    /\ UNCHANGED <<inputs, output, stdout, field_list, fi, field_params, field_params_names,
                   param_classes, had_kwds, pi, call>>

SelfStr == [name |-> "self", ann |-> "", default |-> ""]
KwStr == [name |-> "**kw", ann |-> "", default |-> ""]

\* a variant that forgets the trailing catch-all
CompleteWithoutKw(params) == <<SelfStr>> \o params

\* lines 103-104
Complete(params) == <<SelfStr>> \o params \o <<KwStr>>

\* line 113
FieldModule(fc) ==
    IF \E i \in Range(fields_dict) : classes[i].name = fc THEN "fields." ELSE "relations."

\* lines 115-124
ClassText(fc, params) ==
    [kind |-> "class", name |-> fc,
     bases |-> <<"UUIDMixIn", "ActionMixin", "RenderToTableMixin", FieldModule(fc) \o fc>>,
     params |-> params]

\* lines 103-124: all classes of the target are done, its class is printed
EmitClass ==
    /\ pc = "class"
    /\ ci > Len(param_classes)
    /\ field_params' = Complete(field_params)
    /\ output' = Append(output, ClassText(field_class, field_params'))
    /\ fi' = fi + 1
    /\ pc' = "field"
    /\ UNCHANGED <<inputs, stdout, field_list, field_params_names, param_classes, ci,
                   skip_depth, had_kwds, pi, call>>

\* line 126
Finish ==
    /\ pc = "field"
    /\ fi > Len(field_list)
    /\ stdout' = Append(stdout, [text |-> "fields.py successfully generated", parm |-> "", what |-> "", type |-> ""])
    /\ pc' = "done"
    /\ UNCHANGED <<inputs, output, field_list, fi, field_params, field_params_names, param_classes,
                   ci, skip_depth, had_kwds, pi, call>>

Generate ==
    \/ Begin \/ StartField \/ SkipClass \/ EnterClass
    \/ ExcludeParm \/ SkipSelfOrVar \/ SkipPositional \/ MergeParm
    \/ EndClass \/ EmitClass \/ Finish

-----------------------------------------------------------------------------
(* The generated module in use: a call of a generated constructor *)

\* the parameter a string of the list declares: its name without the stars
ParamName(p) == IF StartsWith(p.name, "**") THEN SubSeq(p.name, 3, Len(p.name)) ELSE p.name

IsVarKeyword(p) == StartsWith(p.name, "**")

\* Python compiles "def __init__(params)": no name twice, and no parameter
\* without a default after one with a default
Compiles(params) ==
    /\ \A i, j \in DOMAIN params : ParamName(params[i]) = ParamName(params[j]) => i = j
    /\ \A i, j \in DOMAIN params :
          (i < j /\ params[i].default # "" /\ ~IsVarKeyword(params[j])) => params[j].default # ""

Classes(out) == { k \in DOMAIN out : out[k].kind = "class" }

Named(params) == { i \in DOMAIN params : params[i].name # "self" /\ ~IsVarKeyword(params[i]) }

NamesOf(params) == { params[i].name : i \in Named(params) }

\* the value a default's text evaluates to, by its repr
DefaultValue(p) == SubSeq(p.default, 2, Len(p.default))

\* the local variables of __init__ when line 121 runs
Locals(params, args) ==
    [n \in NamesOf(params) \cup {"self", "kw", "__class__"} |->
        IF n \in NamesOf(params)
        THEN (IF n \in DOMAIN args THEN args[n]
              ELSE DefaultValue(params[CHOOSE i \in Named(params) : params[i].name = n]))
        ELSE "<" \o n \o ">"]

\* the keyword arguments no named parameter takes
CatchAll(params, args) == [n \in DOMAIN args \ NamesOf(params) |-> args[n]]

Kept(k) == ~(StartsWith(k, "__") \/ StartsWith(k, "self") \/ StartsWith(k, "kw"))

\* lines 121-122: kwargs = {...}; kwargs.update(kw)
Forwarded(params, args) ==
    LET locals == Locals(params, args)
        kw == CatchAll(params, args)
        kwargs == [k \in { k \in DOMAIN locals : Kept(k) } |-> locals[k]]
    IN  [k \in DOMAIN kwargs \cup DOMAIN kw |-> IF k \in DOMAIN kw THEN kw[k] ELSE kwargs[k]]

CallKeys(params) == NamesOf(params) \cup {"read_only"}

CallArgs(params) ==
    UNION { [K -> {"'v'"}] : K \in { K \in SUBSET CallKeys(params) : Cardinality(K) <= MaxCallKeys } }

\* lines 120-123 of the emitted text: a generated class is constructed (the
\* calls are independent of each other: one call is followed per run)
Call ==
    /\ pc = "done"
    /\ ~call.made
    /\ \A k \in Classes(output) : Compiles(output[k].params)
    /\ \E k \in Classes(output) : \E args \in CallArgs(output[k].params) :
          /\ \A i \in Named(output[k].params) :
                output[k].params[i].default = "" => output[k].params[i].name \in DOMAIN args
          /\ call' = [made |-> TRUE, cls |-> k, args |-> args,
                      forwarded |-> Forwarded(output[k].params, args)]
    /\ UNCHANGED <<inputs, pc, output, stdout, field_list, fi, field_params, field_params_names,
                   param_classes, ci, skip_depth, had_kwds, pi>>

Next == Generate \/ Call

Spec == Init /\ [][Next]_vars

\* handle runs sequentially to its end; calls of the generated classes need not happen
FairSpec == Spec /\ WF_vars(Generate)

-----------------------------------------------------------------------------
(* Properties *)

Emitted == Classes(output)

\* the target whose class is block k of the output
TargetOf(k) == field_list[k - Len(Header)]

HasVarKw(sig) == \E i \in DOMAIN sig : sig[i].kind = VAR_KEYWORD

\* the named parameters a class's constructor declares, as inspect.signature reports them
Declared(c) == { i \in DOMAIN Signature(c) : ~SelfOrVar(Signature(c)[i]) }
DeclaredNames(c) == { Signature(c)[i].name : i \in Declared(c) }

\* the chain class of target t at depth d
ChainAt(t, d) == t - d

\* n is declared by chain classes deeper than d only (not nearer, not by the mixin)
OnlyDeeper(t, d, n) ==
    /\ \E e \in (d + 1)..(t - 1) : n \in DeclaredNames(ChainAt(t, e))
    /\ \A e \in 0..d : n \notin DeclaredNames(ChainAt(t, e))
    /\ n \notin DeclaredNames(UUIDMixIn)

\* C1 as stated: a chain class with a var-keyword parameter absorbs the parameters
\* of all deeper classes: none declared only deeper appears in the merged signature
C1_CatchAllAbsorbs ==
    \A k \in Emitted : \A d \in 0..(TargetOf(k) - 1) :
        HasVarKw(Signature(ChainAt(TargetOf(k), d)))
            => \A n \in NamesOf(output[k].params) : ~OnlyDeeper(TargetOf(k), d, n)

\* Base(self, **kwargs) directly below Root(self, choices=None)
BaseRoot(t) ==
    /\ t = 2
    /\ Signature(2) = <<Self, VarKw("kwargs")>>
    /\ Signature(1) = <<Self, Opt("choices", None)>>

\* C1 amended: it is a chain class WITHOUT a var-keyword parameter that cuts off the
\* deeper classes: no parameter declared only deeper than it appears; and for
\* Base(self, **kwargs) below Root(self, choices=None), choices does appear
C1_NoCatchAllCutsOff ==
    \A k \in Emitted :
        /\ \A d \in 0..(TargetOf(k) - 1) :
              ~HasVarKw(Signature(ChainAt(TargetOf(k), d)))
                  => \A n \in NamesOf(output[k].params) : ~OnlyDeeper(TargetOf(k), d, n)
        /\ BaseRoot(TargetOf(k)) => "choices" \in NamesOf(output[k].params)

\* a run that emitted Base with choices, and a class whose own constructor, having
\* no var-keyword parameter, cut off a parameter only a deeper class declares
C1_Witness ==
    /\ pc = "done"
    /\ \E k \in Emitted : BaseRoot(TargetOf(k)) /\ "choices" \in NamesOf(output[k].params)
    /\ \E k \in Emitted :
          /\ ~HasVarKw(Signature(TargetOf(k)))
          /\ \E n \in DeclaredNames(1) : OnlyDeeper(TargetOf(k), 0, n)

\* the emitted parameter is of positional kind (no default) or of keyword kind
PositionalKind(p) == p.default = "" /\ ~IsVarKeyword(p)
KeywordKind(p) == p.default # ""

\* C2: in every emitted parameter list no positional-kind parameter comes after a
\* keyword-kind parameter
C2_OrderingValid ==
    \A k \in Emitted : \A i, j \in DOMAIN output[k].params :
        (i < j /\ KeywordKind(output[k].params[i])) => ~PositionalKind(output[k].params[j])

\* C3: no two parameters of an emitted list (self, the merged ones, **kw) share a name
C3_NamesUnique ==
    \A k \in Emitted : \A i, j \in DOMAIN output[k].params :
        ParamName(output[k].params[i]) = ParamName(output[k].params[j]) => i = j

\* the class of the target's chain at depth d is visited by the merge loop
Visited(t, d) == \A e \in 0..(d - 1) : HasVarKw(Signature(ChainAt(t, e)))

\* the mixin and the chain class at depth d declare the same name with different defaults
Conflict(t, d, pm, p) ==
    /\ ~SelfOrVar(pm) /\ ~SelfOrVar(p)
    /\ pm.name = p.name
    /\ pm.default # inspect_empty /\ p.default # inspect_empty
    /\ pm.default # p.default

Carries(params, n, text) == \E i \in Named(params) : params[i].name = n /\ params[i].default = text

\* C4 as stated: when the mixin and a chain class declare the same parameter with
\* different defaults, the merged signature carries the mixin's default
C4_MixinDefaultWins ==
    \A k \in Emitted : \A d \in 0..(TargetOf(k) - 1) :
        \A pm \in Range(Signature(UUIDMixIn)), p \in Range(Signature(ChainAt(TargetOf(k), d))) :
            Conflict(TargetOf(k), d, pm, p) => Carries(output[k].params, p.name, DefaultText(pm.default))

\* the declaration p of the chain class at depth d is the one the merge takes: the
\* class is visited, no nearer chain class declares the name, it is not excluded
\* and not positional-only
Taken(t, d, p) ==
    /\ Visited(t, d)
    /\ \A e \in 0..(d - 1) : p.name \notin DeclaredNames(ChainAt(t, e))
    /\ ~Excluded(classes[t].name, p)
    /\ p.kind # POSITIONAL_ONLY

\* C4 amended: the chain is merged before the mixin, so in such a conflict the
\* merged signature carries the default (as encoded) of the nearest visited chain
\* class declaring the parameter, not the mixin's
C4_ChainDefaultWins ==
    \A k \in Emitted : \A d \in 0..(TargetOf(k) - 1) :
        \A pm \in Range(Signature(UUIDMixIn)), p \in Range(Signature(ChainAt(TargetOf(k), d))) :
            (Conflict(TargetOf(k), d, pm, p) /\ Taken(TargetOf(k), d, p))
                => /\ Carries(output[k].params, p.name, DefaultText(p.default))
                   /\ ~Carries(output[k].params, p.name, DefaultText(pm.default))

\* a class was emitted whose ancestor (depth 1) and the mixin declare max_length
\* with different defaults, and it carries the ancestor's
C4_Witness ==
    \E k \in Emitted : \E d \in 1..(TargetOf(k) - 1) :
        \E pm \in Range(Signature(UUIDMixIn)), p \in Range(Signature(ChainAt(TargetOf(k), d))) :
            /\ Conflict(TargetOf(k), d, pm, p) /\ Taken(TargetOf(k), d, p)
            /\ Carries(output[k].params, p.name, "=None")
            /\ DefaultText(pm.default) = "=0"

MixinOnly(t, n) ==
    n \in DeclaredNames(UUIDMixIn) /\ \A d \in 0..(t - 1) : n \notin DeclaredNames(ChainAt(t, d))

ChainOnly(t, n) ==
    n \notin DeclaredNames(UUIDMixIn) /\ \E d \in 0..(t - 1) : n \in DeclaredNames(ChainAt(t, d))

\* Base(self, max_length=None) with mixin M(self, id=None)
BaseWithM(t) ==
    /\ Signature(t) = <<Self, Opt("max_length", None)>>
    /\ Signature(UUIDMixIn) = <<Self, Opt("id", None)>>
    /\ classes[t].name # "BooleanField"

IdStr == [name |-> "id", ann |-> "", default |-> "=None"]
MaxLengthStr == [name |-> "max_length", ann |-> "", default |-> "=None"]

\* C5 as stated: the mixin's parameters precede those of the target and its
\* ancestors; Base with M gives (self, id=None, max_length=None, **kw)
C5_MixinFirst ==
    \A k \in Emitted :
        /\ \A i, j \in Named(output[k].params) :
              (MixinOnly(TargetOf(k), output[k].params[i].name)
                 /\ ChainOnly(TargetOf(k), output[k].params[j].name)) => i < j
        /\ BaseWithM(TargetOf(k)) => output[k].params = <<SelfStr, IdStr, MaxLengthStr, KwStr>>

\* C5 amended: the parameters of the target and its ancestors precede those of
\* the mixin; Base with M gives (self, max_length=None, id=None, **kw)
C5_MixinLast ==
    \A k \in Emitted :
        /\ \A i, j \in Named(output[k].params) :
              (MixinOnly(TargetOf(k), output[k].params[i].name)
                 /\ ChainOnly(TargetOf(k), output[k].params[j].name)) => j < i
        /\ BaseWithM(TargetOf(k)) => output[k].params = <<SelfStr, MaxLengthStr, IdStr, KwStr>>

\* Base with M was emitted, as (self, max_length=None, id=None, **kw)
C5_Witness ==
    \E k \in Emitted :
        BaseWithM(TargetOf(k)) /\ output[k].params = <<SelfStr, MaxLengthStr, IdStr, KwStr>>

\* C6: every emitted parameter list begins with self, ends with **kw, and holds no
\* other starred parameter
C6_SelfFirstKwLast ==
    \A k \in Emitted :
        LET params == output[k].params IN
        /\ Len(params) >= 2
        /\ params[1] = SelfStr
        /\ params[Len(params)] = KwStr
        /\ \A i \in 1..(Len(params) - 1) : ~StartsWith(params[i].name, "*")

\* a class was emitted none of whose visited classes declares a var-keyword
\* parameter, and one whose classes declare var-positional and var-keyword ones
C6_Witness ==
    /\ \E k \in Emitted :
          /\ ~HasVarKw(Signature(TargetOf(k))) /\ ~HasVarKw(Signature(UUIDMixIn))
          /\ output[k].params[Len(output[k].params)] = KwStr
    /\ \E k \in Emitted :
          /\ HasVarKw(Signature(TargetOf(k)))
          /\ \E i \in DOMAIN Signature(TargetOf(k)) : Signature(TargetOf(k))[i].kind = VAR_POSITIONAL

\* C7: the mapping a generated constructor forwards is the values of all its named
\* parameters overlaid with the catch-all's keys
C7_RoundTrip ==
    call.made =>
        LET params == output[call.cls].params
            named == [n \in NamesOf(params) |-> Locals(params, call.args)[n]]
            kw == CatchAll(params, call.args)
        IN  call.forwarded =
               [k \in DOMAIN named \cup DOMAIN kw |-> IF k \in DOMAIN kw THEN kw[k] ELSE named[k]]

IsError(line) == line.text = "Error: parameter"
Diagnostics == SelectSeq(stdout, IsError)

EmittedAll ==
    /\ pc = "done"
    /\ Len(output) = Len(Header) + Len(field_list)
    /\ \A k \in DOMAIN field_list :
          /\ output[Len(Header) + k].kind = "class"
          /\ output[Len(Header) + k].name = classes[field_list[k]].name

\* C8: once a value of unknown type has been met, the run still reaches its end
\* with a class emitted for every target of the discovery list
C8_UnsupportedNonFatal == (Diagnostics # <<>>) ~> EmittedAll

\* the run ended with two targets emitted, the first of them holding the
\* parameter of the first diagnostic
C8_Witness ==
    /\ EmittedAll
    /\ Len(field_list) = 2
    /\ Diagnostics # <<>>
    /\ Diagnostics[1].parm \in NamesOf(output[Len(Header) + 1].params)

\* the parameters a class defines in its own __init__
OwnInit(c) ==
    IF c = UUIDMixIn THEN (IF mixin.own THEN mixin.init ELSE <<>>)
    ELSE (IF classes[c].own THEN classes[c].init ELSE <<>>)

\* the <<class, index>> pairs of the parameters annotated with an unknown type
UnknownAnnotated ==
    { at \in UNION { { <<c, i>> : i \in DOMAIN OwnInit(c) } : c \in 0..Len(classes) } :
        /\ OwnInit(at[1])[at[2]].annotation # inspect_empty
        /\ ~AnnotationKnown(OwnInit(at[1])[at[2]].annotation) }

IsAnnotationError(line) == IsError(line) /\ line.what = "annotation is of unknown type"

\* the parameter at <<class, index>> was merged into some emitted class
Met(at) == \E k \in Emitted : OwnInit(at[1])[at[2]].name \in NamesOf(output[k].params)

\* C9: a run over a hierarchy with exactly one (class, parameter) of unknown
\* annotation, in which the merge meets that parameter, prints exactly one
\* diagnostic, and it names the class and the parameter
C9_OneDiagnostic ==
    (pc = "done" /\ Cardinality(UnknownAnnotated) = 1 /\ \A x \in UnknownAnnotated : Met(x)) =>
        LET at == CHOOSE x \in UnknownAnnotated : TRUE
            diags == SelectSeq(stdout, IsAnnotationError)
        IN  /\ Len(diags) = 1
            /\ diags[1].parm = OwnInit(at[1])[at[2]].name
            /\ "cls" \in DOMAIN diags[1]
            /\ diags[1].cls = NameOf(at[1])

Collision ==
    \E i, j \in DOMAIN field_list :
        i # j /\ classes[field_list[i]].name = classes[field_list[j]].name

\* C10: when two targets share a name, no class definition is ever written
C10_CollisionFatal == Collision => Emitted = {}

-----------------------------------------------------------------------------
(* The merge of lines 48-104 as one function of the signatures it reads,   *)
(* to compare the run with the run over a changed hierarchy                *)

\* lines 56-98 over the parameters i.. of sig; acc holds field_params,
\* field_params_names and had_kwds
RECURSIVE MergeParms(_, _, _, _, _)
MergeParms(fc, d, sig, i, acc) ==
    IF i > Len(sig) THEN acc
    ELSE IF Excluded(fc, sig[i]) THEN MergeParms(fc, d, sig, i + 1, acc)
    ELSE IF SelfOrVar(sig[i])
         THEN MergeParms(fc, d, sig, i + 1, [acc EXCEPT !.had = @ \/ sig[i].kind = VAR_KEYWORD])
    ELSE IF LatePositional(d, acc.params, sig[i]) THEN MergeParms(fc, d, sig, i + 1, acc)
    ELSE MergeParms(fc, d, sig, i + 1,
                    [acc EXCEPT !.params = AppendFirst(acc.params, acc.names, sig[i]),
                                !.names = @ \cup {sig[i].name}])

\* lines 49-101 over the entries j.. of pcs; sigs gives each class's signature
RECURSIVE MergeClasses(_, _, _, _, _, _)
MergeClasses(fc, pcs, sigs, j, skip, acc) ==
    IF j > Len(pcs) THEN acc.params
    ELSE IF SkipsClass(pcs[j].depth, skip) THEN MergeClasses(fc, pcs, sigs, j + 1, skip, acc)
    ELSE LET r == MergeParms(fc, pcs[j].depth, sigs[pcs[j].cls], 1, [acc EXCEPT !.had = FALSE])
         IN  MergeClasses(fc, pcs, sigs, j + 1, NextSkipDepth(pcs[j].depth, r.had), r)

\* lines 40-104: the parameter list emitted for target t
MergedWith(t, sigs) ==
    Complete(MergeClasses(classes[t].name, ParamClasses(t), sigs, 1, 0,
                          [params |-> <<>>, names |-> {}, had |-> FALSE]))

\* the signatures inspect.signature gives
Signatures == [c \in 0..Len(classes) |-> Signature(c)]

\* the signatures with the parameter list of class x empty (self alone)
WithEmptyInit(x) == [c \in 0..Len(classes) |-> IF c = x THEN <<Self>> ELSE Signature(c)]

\* the chain classes of target t that define no __init__ and are visited
VisitedWithoutInit(t) ==
    { c \in 1..t : ~classes[c].own /\ Visited(t, t - c) }

\* C11: a visited class that defines no constructor contributes nothing: the
\* emitted list is the one obtained with that class's parameter list empty
C11_MissingConstructorEmpty ==
    \A k \in Emitted : \A x \in VisitedWithoutInit(TargetOf(k)) :
        output[k].params = MergedWith(TargetOf(k), WithEmptyInit(x))

\* the step-by-step run and the function agree on what is emitted
MergeAgrees == \A k \in Emitted : output[k].params = MergedWith(TargetOf(k), Signatures)

\* a declaration the late-positional rule of lines 67-72 cannot drop
Keepable(d, p) ==
    \/ d = 0
    \/ ~(p.kind = POSITIONAL_ONLY \/ (p.kind = POSITIONAL_OR_KEYWORD /\ p.default = inspect_empty))

\* a visited class of target t (a chain class, or the mixin) declares allow_null
DeclaresAllowNull(t) ==
    \/ \E d \in 0..(t - 1) :
          /\ Visited(t, d)
          /\ \E i \in Declared(ChainAt(t, d)) :
                /\ Signature(ChainAt(t, d))[i].name = "allow_null"
                /\ Keepable(d, Signature(ChainAt(t, d))[i])
    \/ "allow_null" \in DeclaredNames(UUIDMixIn)

\* C12: the class emitted for the target BooleanField never has allow_null,
\* whichever visited class declares it; for every other target an allow_null
\* that a visited class declares stays in the merged signature
C12_ExclusionByTarget ==
    \A k \in Emitted :
        IF classes[TargetOf(k)].name = "BooleanField"
        THEN "allow_null" \notin NamesOf(output[k].params)
        ELSE DeclaresAllowNull(TargetOf(k)) => "allow_null" \in NamesOf(output[k].params)

\* BooleanField was emitted without the allow_null its visited ancestor declares,
\* and a class derived from BooleanField was emitted with it
C12_Witness ==
    /\ \E k \in Emitted :
          /\ classes[TargetOf(k)].name = "BooleanField"
          /\ DeclaresAllowNull(TargetOf(k))
          /\ "allow_null" \notin NamesOf(output[k].params)
    /\ \E k \in Emitted :
          /\ classes[TargetOf(k)].name # "BooleanField"
          /\ \E c \in 1..(TargetOf(k) - 1) : classes[c].name = "BooleanField"
          /\ "allow_null" \in NamesOf(output[k].params)

\* C13: a chain class at depth d > 0 is visited only if every chain class nearer
\* to the target declares a var-keyword parameter, and is passed over for good
\* otherwise; the mixin entry, last and at depth 0, is never passed over
C13_TraversalRule ==
    /\ (pc = "parm" /\ cls # UUIDMixIn) => Visited(field_list[fi], depth)
    /\ (pc = "class" /\ ci <= Len(param_classes)) =>
          IF param_classes[ci].cls = UUIDMixIn
          THEN ~SkipsClass(param_classes[ci].depth, skip_depth)
          ELSE SkipsClass(param_classes[ci].depth, skip_depth)
                  <=> ~Visited(field_list[fi], param_classes[ci].depth)

\* the mixin is being visited for a target of depth 2 whose parent, without a
\* var-keyword parameter, was visited and cut off Field
C13_Witness ==
    /\ pc = "parm"
    /\ cls = UUIDMixIn
    /\ field_list[fi] >= 3
    /\ Visited(field_list[fi], 1)
    /\ ~Visited(field_list[fi], 2)
    /\ DeclaredNames(field_list[fi] - 1) \ DeclaredNames(field_list[fi]) # {}
    /\ DeclaredNames(field_list[fi] - 1) \subseteq field_params_names
    /\ DeclaredNames(1) \cap field_params_names = {}

====
